---- MODULE Spec2Model ----
(***************************************************************************)
(* A model of the NEO database of exploring-near-earth-objects:            *)
(*   database.py  NEODatabase.__init__ / get_neo_by_designation /          *)
(*                get_neo_by_name / query                                  *)
(*   models.py    NearEarthObject, CloseApproach                           *)
(*   write.py     write_to_csv, write_to_json                              *)
(* Objects are identified by their position in the collection handed to    *)
(* the constructor: a reference to a NEO is its index in neos, 0 is None,  *)
(* and a NEO's approaches list holds indexes into approaches.              *)
(***************************************************************************)
EXTENDS Integers, Sequences, FiniteSets, TLC

VARIABLES neos, approaches, des2neo, name2neo, pc, ni, ai, ret, streams, file

vars == <<neos, approaches, des2neo, name2neo, pc, ni, ai, ret, streams, file>>

\* The state owned by the database and the entities: everything but the
\* caller's own values (lookup results, generators, written files).
dbvars == <<neos, approaches, des2neo, name2neo>>

-----------------------------------------------------------------------------
\* Bounds of the model.
MaxNeos == 2
MaxApproaches == 2
MaxStreams == 2

\* Optional values: Python's None is the empty tuple, a present value v is <<v>>.
None == <<>>
Some(v) == <<v>>

\* float('nan'), the default diameter (diameters are in whole units here).
NaN == -1

SeqsUpTo(S, n) == UNION {[1..k -> S] : k \in 0..n}

Range(s) == {s[k] : k \in DOMAIN s}

Count(s, x) == Cardinality({k \in DOMAIN s : s[k] = x})

-----------------------------------------------------------------------------
\* models.py: the entity records.

\* NearEarthObject.__init__: the approaches list starts empty.
NearEarthObject(designation, name, diameter, hazardous) ==
    [designation |-> designation, name |-> name, diameter |-> diameter,
     hazardous |-> hazardous, approaches |-> <<>>]

\* helpers.cd_to_datetime: parses the NASA calendar date into a datetime
\* (year, month, day, hour, minute), the month given by its English
\* abbreviation.
cd_to_datetime(s) ==
    CASE s = "2025-Jan-01 00:00" -> <<2025, 1, 1, 0, 0>>
      [] s = "2025-Feb-10 12:30" -> <<2025, 2, 10, 12, 30>>

\* helpers.datetime_to_str: formats a datetime as YYYY-MM-DD HH:MM.
datetime_to_str(t) ==
    CASE t = <<2025, 1, 1, 0, 0>> -> "2025-01-01 00:00"
      [] t = <<2025, 2, 10, 12, 30>> -> "2025-02-10 12:30"

\* CloseApproach.__init__: the NEO reference starts as None (0).
CloseApproach(designation, time, distance, velocity) ==
    [designation |-> designation,
     time |-> IF time # None /\ time # Some("") THEN Some(cd_to_datetime(time[1])) ELSE None,
     distance |-> distance, velocity |-> velocity, neo |-> 0]

\* CloseApproach.time_str
time_str(a) == datetime_to_str(a.time[1])

\* Python truthiness of an optional string: None and '' are falsy.
Truthy(s) == s # None /\ s # Some("")

-----------------------------------------------------------------------------
\* database.py, NEODatabase.__init__

\* d[key] = value on a dict
DictSet(d, key, value) ==
    [k \in DOMAIN d \cup {key} |-> IF k = key THEN value ELSE d[k]]

\* A variant of IndexDesignation that keeps the first NEO of a designation
\* (self._des2neo.setdefault(neo.designation, neo)).
IndexDesignation_FirstWins(d, n) ==
    IF neos[n].designation \in DOMAIN d THEN d ELSE DictSet(d, neos[n].designation, n)

\* line 59: self._des2neo[neo.designation] = neo
IndexDesignation(d, n) == DictSet(d, neos[n].designation, n)

\* A variant of IndexName without the truthiness test on the name.
IndexName_Always(d, n) == DictSet(d, neos[n].name, n)

\* lines 60-61: if neo.name: self._name2neo[neo.name] = neo
IndexName(d, n) == IF Truthy(neos[n].name) THEN DictSet(d, neos[n].name, n) ELSE d

\* Upper-casing of the designations used here.
Upper(s) == IF s = "2000 ab" \/ s = "2000 Ab" THEN "2000 AB" ELSE s

\* A variant of Matches that ignores case
\* (approach._designation.upper() == neo.designation.upper()).
Matches_IgnoreCase(a, n) == Upper(approaches[a].designation) = Upper(neos[n].designation)

\* line 67: approach._designation == neo.designation
Matches(a, n) == approaches[a].designation = neos[n].designation

\* A variant of SetNeo that never overwrites a reference already set
\* (if approach.neo is None: approach.neo = neo).
SetNeo_KeepFirst(as, a, n) == IF as[a].neo = 0 THEN [as EXCEPT ![a].neo = n] ELSE as

\* line 68: approach.neo = neo
SetNeo(as, a, n) == [as EXCEPT ![a].neo = n]

\* A variant of AppendApproach that leaves the NEO's list alone.
AppendApproach_Skip(ns, n, a) == ns

\* line 69: neo.approaches.append(approach)
AppendApproach(ns, n, a) == [ns EXCEPT ![n].approaches = Append(@, a)]

\* The outer loop is between two NEOs: before the first, or after the inner
\* loop over the approaches has finished for the current one.
BetweenNeos == ni = 0 \/ ai > Len(approaches)

\* lines 58-61: the outer loop takes the next NEO and indexes it.
IndexNeo ==
    /\ pc = "linking"
    /\ BetweenNeos
    /\ ni < Len(neos)
    /\ ni' = ni + 1
    /\ ai' = 1
    /\ des2neo' = IndexDesignation(des2neo, ni + 1)
    /\ name2neo' = IndexName(name2neo, ni + 1)
    /\ UNCHANGED <<neos, approaches, pc, ret, streams, file>>

\* lines 66-69: one iteration of the inner loop over all the approaches.
LinkApproach ==
    /\ pc = "linking"
    /\ ni >= 1
    /\ ai <= Len(approaches)
    /\ IF Matches(ai, ni)
       THEN /\ approaches' = SetNeo(approaches, ai, ni)
            /\ neos' = AppendApproach(neos, ni, ai)
       ELSE UNCHANGED <<neos, approaches>>
    /\ ai' = ai + 1
    /\ UNCHANGED <<des2neo, name2neo, pc, ni, ret, streams, file>>

\* line 58: the outer loop is exhausted, the constructor returns.
Constructed ==
    /\ pc = "linking"
    /\ BetweenNeos
    /\ ni = Len(neos)
    /\ pc' = "ready"
    /\ UNCHANGED <<neos, approaches, des2neo, name2neo, ni, ai, ret, streams, file>>

-----------------------------------------------------------------------------
\* database.py, the lookups.  ret is what the caller received last.

NoCall == [op |-> "none", arg |-> None, val |-> 0]

\* lines 84-87: self._des2neo[designation], None on KeyError
get_neo_by_designation(designation) ==
    IF designation \in DOMAIN des2neo THEN des2neo[designation] ELSE 0

\* lines 103-106: self._name2neo[name], None on KeyError
get_neo_by_name(name) ==
    IF name \in DOMAIN name2neo THEN name2neo[name] ELSE 0

GetNeoByDesignation(designation) ==
    /\ pc = "ready"
    /\ ret' = [op |-> "get_neo_by_designation", arg |-> Some(designation),
               val |-> get_neo_by_designation(designation)]
    /\ UNCHANGED <<neos, approaches, des2neo, name2neo, pc, ni, ai, streams, file>>

GetNeoByName(name) ==
    /\ pc = "ready"
    /\ ret' = [op |-> "get_neo_by_name", arg |-> name, val |-> get_neo_by_name(name)]
    /\ UNCHANGED <<neos, approaches, des2neo, name2neo, pc, ni, ai, streams, file>>

-----------------------------------------------------------------------------
\* filters.py: an attribute filter is a comparison operator, a threshold and
\* the attribute of the approach (or of its NEO) that it inspects.

\* The attributes that come from the linked NEO.
NeoSourced == {"hazardous", "diameter"}

\* AttributeFilter.get of the subclasses: the inspected value (a bool is an
\* int in Python, True being 1).
Get(attr, a) ==
    CASE attr = "distance" -> approaches[a].distance
      [] attr = "velocity" -> approaches[a].velocity
      [] attr = "hazardous" -> IF neos[approaches[a].neo].hazardous THEN 1 ELSE 0
      [] attr = "diameter" -> neos[approaches[a].neo].diameter

\* operator.eq / operator.le / operator.ge
Compare(op, x, y) ==
    CASE op = "eq" -> x = y
      [] op = "le" -> x <= y
      [] op = "ge" -> x >= y

\* AttributeFilter.__call__: self.op(self.get(approach), self.value).  A
\* filter on a NEO-sourced attribute has no value to compare for an approach
\* without a NEO and raises the TypeError that query catches.
Apply(f, a) ==
    IF f.attr \in NeoSourced /\ approaches[a].neo = 0 THEN "TypeError"
    ELSE IF Compare(f.op, Get(f.attr, a), f.value) THEN "True"
    ELSE "False"

-----------------------------------------------------------------------------
\* database.py, NEODatabase.query

\* A variant of AllFilters with any() in place of all().
AllFilters_Any(fs, a) ==
    LET results == {Apply(fs[k], a) : k \in DOMAIN fs}
    IN  IF "TypeError" \in results THEN "TypeError"
        ELSE IF "True" \in results THEN "True"
        ELSE "False"

\* A variant of AllFilters over a generator expression, all(f(a) for f in
\* filters): all() stops at the first false result and the filters after it
\* are never evaluated.
AllFilters_ShortCircuit(fs, a) ==
    LET falseAt == {k \in DOMAIN fs : Apply(fs[k], a) = "False"}
        raiseAt == {k \in DOMAIN fs : Apply(fs[k], a) = "TypeError"}
    IN  IF \E r \in raiseAt : \A k \in falseAt : r < k THEN "TypeError"
        ELSE IF falseAt # {} THEN "False"
        ELSE "True"

\* line 124: all({filter(approach) for filter in filters}).  The set
\* comprehension evaluates every filter before all() sees any result, so an
\* exception of any of them propagates.
AllFilters(fs, a) ==
    LET results == {Apply(fs[k], a) : k \in DOMAIN fs}
    IN  IF "TypeError" \in results THEN "TypeError"
        ELSE IF "False" \in results THEN "False"
        ELSE "True"

\* A variant of Scan whose except clause skips the approach (continue).
RECURSIVE Scan_SkipOnError(_, _)
Scan_SkipOnError(fs, k) ==
    IF k > Len(approaches) THEN [done |-> TRUE, pos |-> Len(approaches), item |-> 0]
    ELSE IF AllFilters(fs, k) = "True" THEN [done |-> FALSE, pos |-> k, item |-> k]
    ELSE Scan_SkipOnError(fs, k + 1)

\* lines 122-129: the generator runs from approach k to its next yield, or
\* to its end: the collection is exhausted, or a TypeError makes it return.
RECURSIVE Scan(_, _)
Scan(fs, k) ==
    IF k > Len(approaches) THEN [done |-> TRUE, pos |-> Len(approaches), item |-> 0]
    ELSE LET r == AllFilters(fs, k)
         IN  IF r = "TypeError" THEN [done |-> TRUE, pos |-> k, item |-> 0]
             ELSE IF r = "True" THEN [done |-> FALSE, pos |-> k, item |-> k]
             ELSE Scan(fs, k + 1)

\* line 108: calling query creates a generator; nothing runs before the
\* first next().  pos is the last approach the generator has examined, out
\* the approaches it has yielded so far.
Query(filters) ==
    /\ pc = "ready"
    /\ Len(streams) < MaxStreams
    /\ streams' = Append(streams, [filters |-> filters, pos |-> 0, out |-> <<>>, done |-> FALSE])
    /\ UNCHANGED <<neos, approaches, des2neo, name2neo, pc, ni, ai, ret, file>>

\* A variant of QueryNext in which the generators iterate over one shared
\* iterator of the approaches instead of the collection: what one generator
\* consumes is gone for the others.
QueryNext_SharedIterator(s) ==
    /\ pc = "ready"
    /\ s \in DOMAIN streams
    /\ ~streams[s].done
    /\ LET r == Scan(streams[s].filters, streams[s].pos + 1)
       IN  streams' = [t \in DOMAIN streams |->
                        IF t = s
                        THEN [streams[t] EXCEPT !.pos = r.pos, !.done = r.done,
                                                !.out = IF r.done THEN @ ELSE Append(@, r.item)]
                        ELSE [streams[t] EXCEPT !.pos = IF @ < r.pos THEN r.pos ELSE @]]
    /\ UNCHANGED <<neos, approaches, des2neo, name2neo, pc, ni, ai, ret, file>>

\* next() on a generator that has not finished.
QueryNext(s) ==
    /\ pc = "ready"
    /\ s \in DOMAIN streams
    /\ ~streams[s].done
    /\ LET r == Scan(streams[s].filters, streams[s].pos + 1)
       IN  streams' = [streams EXCEPT ![s].pos = r.pos,
                                      ![s].done = r.done,
                                      ![s].out = IF r.done THEN @ ELSE Append(@, r.item)]
    /\ UNCHANGED <<neos, approaches, des2neo, name2neo, pc, ni, ai, ret, file>>

\* What a consumer that exhausts query(filters) receives.
RECURSIVE Collect(_, _)
Collect(fs, k) ==
    LET r == Scan(fs, k)
    IN  IF r.done THEN <<>> ELSE <<r.item>> \o Collect(fs, r.pos + 1)

-----------------------------------------------------------------------------
\* write.py.  file is what the last writer call left: the records it handed
\* to the file for the results it was given, or the exception that ended it.

\* lines 37-45: the row of one approach.
CsvRow(a) ==
    [datetime_utc |-> time_str(approaches[a]),
     distance_au |-> approaches[a].distance,
     velocity_km_s |-> approaches[a].velocity,
     designation |-> approaches[a].designation,
     name |-> IF approaches[a].neo # 0 THEN neos[approaches[a].neo].name ELSE None,
     diameter_km |-> IF approaches[a].neo # 0 THEN Some(neos[approaches[a].neo].diameter) ELSE None,
     potentially_hazardous |->
        IF approaches[a].neo # 0 THEN Some(neos[approaches[a].neo].hazardous) ELSE None]

\* lines 33-46: write_to_csv over the results of query(filters).
WriteToCsv(filters) ==
    /\ pc = "ready"
    /\ LET results == Collect(filters, 1)
       IN  file' = [kind |-> "csv", results |-> results,
                    rows |-> [k \in DOMAIN results |-> CsvRow(results[k])],
                    error |-> "none"]
    /\ UNCHANGED <<neos, approaches, des2neo, name2neo, pc, ni, ai, ret, streams>>

\* lines 60-62: write_to_json over the results of query(filters).  Line 60
\* calls result.as_dict() on every result, a method that CloseApproach
\* (models.py lines 87-157) does not have: the first result raises
\* AttributeError before the file is opened.
WriteToJson(filters) ==
    /\ pc = "ready"
    /\ LET results == Collect(filters, 1)
       IN  file' = [kind |-> "json", results |-> results, rows |-> <<>>,
                    error |-> IF results = <<>> THEN "none" ELSE "AttributeError"]
    /\ UNCHANGED <<neos, approaches, des2neo, name2neo, pc, ni, ai, ret, streams>>

-----------------------------------------------------------------------------
\* The inputs: unlinked records as the ingestion stage creates them.

EmptyDict == [k \in {} |-> 0]

NoFile == [kind |-> "none", results |-> <<>>, rows |-> <<>>, error |-> "none"]

InitWith(NeoInputs, ApproachInputs) ==
    /\ neos \in SeqsUpTo(NeoInputs, MaxNeos)
    /\ approaches \in SeqsUpTo(ApproachInputs, MaxApproaches)
    /\ des2neo = EmptyDict
    /\ name2neo = EmptyDict
    /\ pc = "linking"
    /\ ni = 0
    /\ ai = 1
    /\ ret = NoCall
    /\ streams = <<>>
    /\ file = NoFile

\* Designations and names that differ in case only, an empty name and an
\* absent name.
BuildNeos ==
    {NearEarthObject(d, n, NaN, TRUE) :
        d \in {"2000 AB", "2000 ab"}, n \in {None, Some(""), Some("Apophis")}}

BuildApproaches ==
    {CloseApproach(d, Some("2025-Jan-01 00:00"), 5, 10) :
        d \in {"2000 AB", "2000 ab", "9999 ZZ"}}

LookupDesignations == {"2000 AB", "2000 ab", "2000 Ab", "9999 ZZ", ""}

LookupNames == {None, Some(""), Some("Apophis"), Some("apophis")}

InitBuild == InitWith(BuildNeos, BuildApproaches)

NextBuild ==
    \/ IndexNeo
    \/ LinkApproach
    \/ Constructed
    \/ \E d \in LookupDesignations : GetNeoByDesignation(d)
    \/ \E n \in LookupNames : GetNeoByName(n)

SpecBuild == InitBuild /\ [][NextBuild]_vars

-----------------------------------------------------------------------------
\* Querying.  The NEO is the one of the scenario (diameter 0.3 km, here in
\* tenths), hazardous or not; an approach refers to it or to no NEO at all
\* and passes at 0.05 au or at 0.5 au (here in hundredths).

QueryNeos ==
    {NearEarthObject("2000 AB", Some("Apophis"), 3, h) : h \in BOOLEAN}

QueryApproaches ==
    {CloseApproach(d, Some("2025-Jan-01 00:00"), dist, 10) :
        d \in {"2000 AB", "9999 ZZ"}, dist \in {5, 50}}

\* hazardous == true, a filter on a NEO-sourced attribute
Hazardous == [attr |-> "hazardous", op |-> "eq", value |-> 1]

\* distance <= 0.05 au, a filter on an attribute of the approach
Near == [attr |-> "distance", op |-> "le", value |-> 5]

FilterCollections ==
    {<<>>, <<Hazardous>>, <<Near>>, <<Hazardous, Near>>, <<Near, Hazardous>>}

InitQuery == InitWith(QueryNeos, QueryApproaches)

NextQuery ==
    \/ IndexNeo
    \/ LinkApproach
    \/ Constructed
    \/ \E fs \in FilterCollections : Query(fs)
    \/ \E s \in 1..MaxStreams : QueryNext(s)

SpecQuery == InitQuery /\ [][NextQuery]_vars

\* Lookups and generators of one caller, interleaved.
InterleaveNeos == {NearEarthObject("2000 AB", Some("Apophis"), 3, TRUE)}

InterleaveApproaches ==
    {CloseApproach("2000 AB", Some("2025-Jan-01 00:00"), 50, 10),
     CloseApproach("9999 ZZ", Some("2025-Feb-10 12:30"), 5, 10)}

InitInterleave == InitWith(InterleaveNeos, InterleaveApproaches)

NextInterleave ==
    \/ IndexNeo
    \/ LinkApproach
    \/ Constructed
    \/ \E fs \in FilterCollections : Query(fs)
    \/ \E s \in 1..MaxStreams : QueryNext(s)
    \/ \E d \in {"2000 AB", "9999 ZZ"} : GetNeoByDesignation(d)
    \/ \E n \in {None, Some("Apophis")} : GetNeoByName(n)

SpecInterleave == InitInterleave /\ [][NextInterleave]_vars

\* Writing the results of a query: named and unnamed NEOs of known and
\* unknown diameter, approaches with and without a NEO.
WriteNeos ==
    {NearEarthObject("2000 AB", n, d, h) :
        n \in {None, Some("Apophis")}, d \in {NaN, 3}, h \in BOOLEAN}

WriteApproaches ==
    {CloseApproach(d, Some("2025-Feb-10 12:30"), dist, 10) :
        d \in {"2000 AB", "9999 ZZ"}, dist \in {5, 50}}

InitWrite == InitWith(WriteNeos, WriteApproaches)

NextWrite ==
    \/ IndexNeo
    \/ LinkApproach
    \/ Constructed
    \/ \E fs \in {<<>>, <<Near>>} : WriteToCsv(fs)
    \/ \E fs \in {<<>>, <<Near>>} : WriteToJson(fs)

SpecWrite == InitWrite /\ [][NextWrite]_vars

-----------------------------------------------------------------------------
\* Properties of the constructed database.

NeoIds == 1..Len(neos)
ApproachIds == 1..Len(approaches)

\* The NEOs of the input whose designation the approach refers to.
NeosOf(a) == {n \in NeoIds : neos[n].designation = approaches[a].designation}

Max(S) == CHOOSE x \in S : \A y \in S : y <= x

\* C1: after construction, every approach whose designation-reference equals
\* the designation of some NEO has its NEO reference set to a NEO with that
\* designation, and occurs exactly once in that NEO's approaches sequence.
C1_MatchedApproachesLinked ==
    pc = "ready" =>
        \A a \in ApproachIds :
            NeosOf(a) # {} =>
                /\ approaches[a].neo \in NeosOf(a)
                /\ Count(neos[approaches[a].neo].approaches, a) = 1

C1_Witness ==
    /\ pc = "ready"
    /\ Len(approaches) = 2
    /\ \E a \in ApproachIds : Cardinality(NeosOf(a)) = 2 /\ approaches[a].neo = 2

\* C2: after construction, every approach whose designation-reference equals
\* no NEO's designation still has no NEO reference and occurs in no NEO's
\* approaches sequence; and the constructor is never stuck before it returns.
C2_UnmatchedApproachesUnlinked ==
    /\ pc = "ready" =>
        \A a \in ApproachIds :
            NeosOf(a) = {} =>
                /\ approaches[a].neo = 0
                /\ \A n \in NeoIds : a \notin Range(neos[n].approaches)
    /\ pc = "linking" => ENABLED (IndexNeo \/ LinkApproach \/ Constructed)

C2_Witness ==
    /\ pc = "ready"
    /\ Len(neos) > 0
    /\ \E a \in ApproachIds : NeosOf(a) = {} /\ approaches[a].neo = 0
    /\ \E a \in ApproachIds : approaches[a].neo # 0

\* C6: get_neo_by_designation(d) returns a NEO whose designation is exactly d
\* when the input has one, the latest of them in input order when it has
\* several, and None when it has none.
C6_DesignationLookup ==
    ret.op = "get_neo_by_designation" =>
        LET hits == {n \in NeoIds : neos[n].designation = ret.arg[1]}
        IN  ret.val = IF hits = {} THEN 0 ELSE Max(hits)

C6_Witness ==
    /\ ret.op = "get_neo_by_designation"
    /\ ret.val = 2
    /\ neos[1].designation = neos[2].designation

\* C7: get_neo_by_name('') and get_neo_by_name(None) return None, even when
\* a NEO of the input has the name '' or None; any NEO that get_neo_by_name(s)
\* returns has exactly the name s.
C7_NameLookup ==
    ret.op = "get_neo_by_name" =>
        /\ ret.arg \in {None, Some("")} => ret.val = 0
        /\ ret.val # 0 => neos[ret.val].name = ret.arg

C7_Witness ==
    /\ ret.op = "get_neo_by_name"
    /\ ret.arg = Some("")
    /\ ret.val = 0
    /\ \E n \in NeoIds : neos[n].name = Some("")
    /\ \E n \in NeoIds : neos[n].name = None

\* An approach is in a NEO's approaches sequence exactly if it refers to that NEO.
Bidirectional ==
    \A a \in ApproachIds : \A n \in NeoIds :
        a \in Range(neos[n].approaches) <=> approaches[a].neo = n

\* A linked approach is in exactly one NEO's approaches sequence.
InOneSequence ==
    \A a \in ApproachIds :
        approaches[a].neo # 0 =>
            Cardinality({n \in NeoIds : a \in Range(neos[n].approaches)}) = 1

\* A step leaves every NEO reference that is already set as it is.
WriteOnceStep ==
    \A a \in ApproachIds : approaches[a].neo # 0 => approaches'[a].neo = approaches[a].neo

UniqueDesignations ==
    \A m, n \in NeoIds : neos[m].designation = neos[n].designation => m = n

\* C10 as stated: for every input, NEOs sharing a designation included, each
\* NEO reference is assigned at most once and, once constructed, an approach
\* is in the approaches sequence of NEO n exactly if its reference is n, so
\* that a linked approach is in exactly one sequence.
C10_AsStated ==
    [][WriteOnceStep /\ (pc' = "ready" => (Bidirectional /\ InOneSequence)')]_vars

\* C10, amended: that holds for the inputs whose NEO designations are
\* pairwise distinct.  For every input, a step changes a NEO reference only
\* to a later NEO carrying the approach's designation, and once constructed
\* an approach refers to the last NEO with its designation and occurs once in
\* the approaches sequence of every NEO with its designation and in no other.
C10_Linkage ==
    [][/\ UniqueDesignations =>
            WriteOnceStep /\ (pc' = "ready" => (Bidirectional /\ InOneSequence)')
       /\ \A a \in ApproachIds :
            approaches'[a].neo # approaches[a].neo =>
                approaches'[a].neo \in NeosOf(a) /\ approaches'[a].neo > approaches[a].neo
       /\ pc' = "ready" =>
            \A a \in ApproachIds :
                /\ approaches'[a].neo = IF NeosOf(a) = {} THEN 0 ELSE Max(NeosOf(a))
                /\ \A n \in NeoIds :
                    Count(neos'[n].approaches, a) = IF n \in NeosOf(a) THEN 1 ELSE 0]_vars

C10_Witness ==
    /\ pc = "ready"
    /\ UniqueDesignations
    /\ Len(neos) = 2
    /\ \A a \in ApproachIds : approaches[a].neo # 0
    /\ \E a, b \in ApproachIds : approaches[a].neo # approaches[b].neo

-----------------------------------------------------------------------------
\* Properties of query.

Ids(n) == [k \in 1..n |-> k]

IsPrefix(p, q) == Len(p) <= Len(q) /\ SubSeq(q, 1, Len(p)) = p

\* Every filter of the collection returns true on the approach.
Passes(fs, a) == \A k \in DOMAIN fs : Apply(fs[k], a) = "True"

\* Some filter of the collection raises on the approach.
Raises(fs, a) == \E k \in DOMAIN fs : Apply(fs[k], a) = "TypeError"

\* The approaches before approach n that satisfy every filter, in the order
\* of the collection.
PassingBefore(fs, n) ==
    LET Test(a) == Passes(fs, a) IN SelectSeq(Ids(n - 1), Test)

\* The first approach on which some filter raises (none: past the end).
FirstRaise(fs) ==
    LET R == {a \in ApproachIds : Raises(fs, a)}
    IN  IF R = {} THEN Len(approaches) + 1 ELSE CHOOSE a \in R : \A b \in R : a <= b

\* C3: when some filter raises on an approach, wherever the filter stands in
\* the collection and whatever the other filters return on that approach, the
\* stream ends there: it yields exactly the approaches before it that satisfy
\* every filter, and nothing at or after it.
C3_RaiseEndsStream ==
    \A s \in DOMAIN streams :
        LET fs == streams[s].filters
            r == FirstRaise(fs)
        IN  r <= Len(approaches) =>
                /\ IsPrefix(streams[s].out, PassingBefore(fs, r))
                /\ streams[s].pos <= r
                /\ streams[s].pos = r => streams[s].done
                /\ streams[s].done => streams[s].out = PassingBefore(fs, r)

\* The failing filter is the last of the collection, another filter returns
\* false on the approach it fails on, and an approach that satisfies every
\* filter follows.
C3_Witness ==
    \E s \in DOMAIN streams :
        /\ streams[s].filters = <<Near, Hazardous>>
        /\ streams[s].done
        /\ streams[s].pos = 1
        /\ Apply(Near, 1) = "False"
        /\ Apply(Hazardous, 1) = "TypeError"
        /\ Len(approaches) = 2
        /\ Passes(streams[s].filters, 2)

\* The database of the scenario: the hazardous NEO 2000 AB (Apophis) and two
\* approaches, one to 2000 AB and one to 9999 ZZ, in either order.
Scenario(first, second) ==
    /\ pc = "ready"
    /\ Len(neos) = 1
    /\ neos[1].designation = "2000 AB"
    /\ neos[1].name = Some("Apophis")
    /\ neos[1].hazardous
    /\ Len(approaches) = 2
    /\ approaches[1].designation = first
    /\ approaches[2].designation = second

\* C4 as stated: in the scenario, query([hazardous == true]) yields nothing,
\* in either order of the two approaches.
C4_AsStated ==
    \A s \in DOMAIN streams :
        /\ streams[s].filters = <<Hazardous>>
        /\ Scenario("2000 AB", "9999 ZZ") \/ Scenario("9999 ZZ", "2000 AB")
        => streams[s].out = <<>>

\* C4, amended: query([hazardous == true]) yields nothing when the 9999 ZZ
\* approach comes first; when the 2000 AB approach comes first the stream
\* yields that approach and then ends at the 9999 ZZ approach.
C4_Scenario ==
    \A s \in DOMAIN streams :
        streams[s].filters = <<Hazardous>> =>
            /\ Scenario("9999 ZZ", "2000 AB") =>
                /\ streams[s].out = <<>>
                /\ streams[s].pos > 0 => streams[s].done /\ streams[s].pos = 1
            /\ Scenario("2000 AB", "9999 ZZ") =>
                /\ streams[s].out = IF streams[s].pos = 0 THEN <<>> ELSE <<1>>
                /\ streams[s].done <=> streams[s].pos = 2

C4_Witness ==
    /\ Scenario("2000 AB", "9999 ZZ")
    /\ \E s \in DOMAIN streams :
        /\ streams[s].filters = <<Hazardous>>
        /\ streams[s].done
        /\ streams[s].out = <<1>>
    /\ \E s \in DOMAIN streams :
        /\ streams[s].filters = <<Hazardous>>
        /\ ~streams[s].done

\* C5: when no filter raises on any approach, the stream yields exactly the
\* approaches on which every filter returns true, each once and in the
\* order of the collection; without filters, or with filters that are true
\* on every approach, that is the whole collection.
C5_QueryYieldsMatches ==
    \A s \in DOMAIN streams :
        LET fs == streams[s].filters
            all == PassingBefore(fs, Len(approaches) + 1)
        IN  (\A a \in ApproachIds : ~Raises(fs, a)) =>
                /\ IsPrefix(streams[s].out, all)
                /\ streams[s].done => streams[s].out = all
                /\ streams[s].done /\ (\A a \in ApproachIds : Passes(fs, a)) =>
                        streams[s].out = Ids(Len(approaches))

\* A NEO-sourced filter that raises nowhere and rejects one of two approaches,
\* next to a stream without filters that has yielded everything.
C5_Witness ==
    /\ Len(approaches) = 2
    /\ \E s \in DOMAIN streams :
        /\ Len(streams[s].filters) = 2
        /\ \A a \in ApproachIds : ~Raises(streams[s].filters, a)
        /\ streams[s].done
        /\ Len(streams[s].out) = 1
    /\ \E s \in DOMAIN streams :
        /\ streams[s].filters = <<>>
        /\ streams[s].done
        /\ streams[s].out = <<1, 2>>

\* C9: once the database is constructed, a lookup or a step of a query
\* stream leaves the indexes, the collections and the linkage as they are,
\* changes no stream but the one advanced, and every stream, however the
\* steps interleave and wherever it is left, has yielded a prefix of what it
\* yields when consumed alone, and all of it once it has ended.
C9_ReadOnly ==
    [][pc = "ready" =>
        /\ UNCHANGED dbvars
        /\ \A s \in DOMAIN streams :
            \A t \in DOMAIN streams : streams'[s] # streams[s] /\ streams'[t] # streams[t] => s = t
        /\ \A s \in DOMAIN streams' :
            /\ IsPrefix(streams'[s].out, Collect(streams'[s].filters, 1))
            /\ streams'[s].done => streams'[s].out = Collect(streams'[s].filters, 1)]_vars

\* Two streams advanced in turn, one ended and one left part-way, and a
\* lookup after them.
C9_Witness ==
    /\ Len(streams) = 2
    /\ streams[1].done /\ streams[1].out # <<>>
    /\ ~streams[2].done /\ streams[2].out # <<>>
    /\ streams[1].filters # streams[2].filters
    /\ ret.op = "get_neo_by_name" /\ ret.val # 0

-----------------------------------------------------------------------------
\* Properties of the writers.

\* C8: each writer produces one record per approach of the results, with the
\* seven fields, in which name, diameter_km and potentially_hazardous are
\* null exactly when the approach has no linked NEO.
C8_AsStated ==
    file.kind # "none" =>
        /\ file.error = "none"
        /\ Len(file.rows) = Len(file.results)
        /\ \A k \in DOMAIN file.rows :
            LET a == file.results[k]
                row == file.rows[k]
            IN  /\ DOMAIN row = {"datetime_utc", "distance_au", "velocity_km_s", "designation",
                                 "name", "diameter_km", "potentially_hazardous"}
                /\ row.name = None <=> approaches[a].neo = 0
                /\ row.diameter_km = None <=> approaches[a].neo = 0
                /\ row.potentially_hazardous = None <=> approaches[a].neo = 0

====
